---- MODULE Spec2Model ----
(***************************************************************************)
(* DarwiNN optimizers (src/darwinn/optimizers/dnn.py) as a state machine:  *)
(* one optimizer instance per rank, constructed from the same arguments,   *)
(* stepping through generations and meeting in the environment's           *)
(* collective synchronize().                                               *)
(*                                                                         *)
(* Tensors are functions over 0-based indices (as the source indexes       *)
(* them); a view of a tensor is a range [off, len] into it.  Scalars are   *)
(* integers.                                                               *)
(***************************************************************************)
EXTENDS Integers, Sequences, FiniteSets, TLC

VARIABLES cfg, opt, net, hist

vars == <<cfg, opt, net, hist>>

----------------------------------------------------------------------------
(* Bounds of the exploration *)

\* number of nodes explored when only construction is explored
MaxCtorNodes == 4
\* requested popsize explored when only construction is explored
MaxCtorPop == 6
\* number of nodes explored when generations are run
MaxNodes == 2
\* requested popsize explored when generations are run
MaxPop == 4
\* generations run per optimizer
MaxGen == 2
\* a loss is one of 0 .. MaxLoss (times the node count, so that AVERAGE is exact)
MaxLoss == 1
\* the caller's loop ends once a rank has evaluated MaxEvals members
MaxEvals == 2
\* ... and MaxGAEvals members where one node runs the genetic algorithm alone
MaxGAEvals == 6

----------------------------------------------------------------------------
(* Tensors and views *)

Min(a, b) == IF a <= b THEN a ELSE b
Max(a, b) == IF a >= b THEN a ELSE b
CeilDiv(a, b) == (a + b - 1) \div b

\* content of torch.empty storage before anything is written to it
Uninit == -1

Size(t) == Cardinality(DOMAIN t)
Full(len, v) == [i \in 0 .. len - 1 |-> v]
Range(off, len) == [off |-> off, len |-> len]
\* t[a:b] with Python's clipping of the bounds
Slice(t, a, b) ==
    LET lo == Min(a, Size(t))
        hi == Max(lo, Min(b, Size(t)))
    IN  [i \in 0 .. hi - lo - 1 |-> t[lo + i]]
\* the elements of t a view covers
ViewOf(t, r) == [i \in 0 .. r.len - 1 |-> t[r.off + i]]
\* t with the elements of view r overwritten by those of s
WriteView(t, r, s) ==
    [i \in DOMAIN t |-> IF i >= r.off /\ i < r.off + r.len THEN s[i - r.off] ELSE t[i]]
Concat(s, t) ==
    [i \in 0 .. Size(s) + Size(t) - 1 |-> IF i < Size(s) THEN s[i] ELSE t[i - Size(s)]]

\* torch.chunk(t, chunks) of a 1-d tensor of `len` elements, as views: pieces
\* of ceil(len/chunks) elements, the last one shorter, and fewer than
\* `chunks` pieces when they run out; an empty tensor gives `chunks` empty
\* pieces.
Chunk(len, chunks) ==
    IF len = 0
    THEN [k \in 1 .. chunks |-> Range(0, 0)]
    ELSE LET cs == CeilDiv(len, chunks)
         IN  [k \in 1 .. CeilDiv(len, cs) |-> Range((k - 1) * cs, Min(cs, len - (k - 1) * cs))]

Merge(r, s) == [f \in DOMAIN r \cup DOMAIN s |-> IF f \in DOMAIN s THEN s[f] ELSE r[f]]

RECURSIVE SumSeq(_)
SumSeq(s) == IF s = <<>> THEN 0 ELSE Head(s) + SumSeq(Tail(s))

----------------------------------------------------------------------------
(* Configuration: the environment and the constructor's arguments, the      *)
(* same on every rank                                                       *)

Ranks == 0 .. cfg.number_nodes - 1

Strategies == {"OpenAIES", "SNES", "GA"}
Distributions == {"Gaussian", "Uniform", "Cauchy"}
\* numel of each parameter tensor of the model, in parameters() order
ParamShapes == {<<1>>, <<2, 1>>}
CtorParamShapes == {<<1>>, <<2, 1>>, <<2, 2, 1>>}
\* elite_ratio as a fraction <<numerator, denominator>>
EliteRatios == {<<1, 10>>, <<1, 2>>}

\* the model's initial parameter values, flat, in parameters() order
InitialParams(shapes) == [j \in 0 .. SumSeq(shapes) - 1 |-> 10 * (j + 1)]

Configs(strategies, maxNodes, maxPop, shapeSet, dists) ==
    [strategy : strategies,
     number_nodes : 1 .. maxNodes,
     popsize : 1 .. maxPop,
     data_parallel : BOOLEAN,
     semi_updates : BOOLEAN,
     orthogonal_updates : BOOLEAN,
     distribution : dists,
     shapes : shapeSet,
     sigma : {1},
     elite_ratio : EliteRatios]

\* GAOptimizer takes neither update flags nor a distribution, the others no
\* elite_ratio: such arguments are held at one value
WellFormed(c) ==
    /\ c.strategy = "GA" =>
          ~c.semi_updates /\ ~c.orthogonal_updates /\ c.distribution = "Gaussian"
    /\ c.strategy # "GA" => c.elite_ratio = <<1, 10>>

----------------------------------------------------------------------------
(* Parameter marshalling *)

\* index in the flat vector of the first element of parameter k
Offset(shapes, k) == SumSeq(SubSeq(shapes, 1, k - 1))

\* count_num_parameters: the length of the concatenated flattened parameters
count_num_parameters(params) == SumSeq([k \in 1 .. Len(params) |-> Size(params[k])])

\* the parameter tensors update_model(theta) installs: parameter k becomes
\* theta[idx : idx + numel], idx advancing in parameters() order
Unflatten(theta, shapes) ==
    [k \in 1 .. Len(shapes) |->
        Slice(theta, Offset(shapes, k), Offset(shapes, k) + shapes[k])]

\* update_theta: theta[idx : idx + numel] = param.flatten() for each parameter
\* of model_adapt in parameters() order; the rest of theta is left as it is
FlattenInto(theta, params) ==
    LET shapes == [k \in 1 .. Len(params) |-> Size(params[k])]
        Owner(i) == CHOOSE k \in 1 .. Len(params) :
                        Offset(shapes, k) <= i /\ i < Offset(shapes, k) + shapes[k]
    IN  [i \in DOMAIN theta |->
            IF i < SumSeq(shapes) THEN params[Owner(i)][i - Offset(shapes, Owner(i))]
            ELSE theta[i]]

\* The evaluation model's parameters are views (param.data = temp.data) of
\* the vector last given to update_model: of Theta or of a population row,
\* which the optimizer goes on writing in place, or of a tensor nothing
\* writes afterwards ("own": the deep copy, a row of a theta_noisy).
OwnModel(params) == [view |-> "own", params |-> params, row |-> 0]
ModelParams(o) ==
    CASE o.model.view = "own" -> o.model.params
      [] o.model.view = "theta" -> Unflatten(o.theta, cfg.shapes)
      [] o.model.view = "population" -> Unflatten(o.population[o.model.row], cfg.shapes)

----------------------------------------------------------------------------
(* Construction *)

\* an optimizer object nothing has been assigned to yet
Blank ==
    [pc |-> "new", error |-> "none",
     nodes |-> 0, popsize |-> 0, folds |-> 0,
     fitness_global |-> <<>>, fitness_list |-> <<>>, fitness_local |-> Range(0, 0),
     model_adapt |-> <<>>, model |-> OwnModel(<<>>), num_parameters |-> 0,
     theta |-> <<>>, loss |-> [num |-> 0, den |-> 1], fitness_sync_mode |-> "unset", generation |-> 0,
     sigma |-> 0, semi_updates |-> FALSE, orthogonal_updates |-> FALSE,
     gradient |-> <<>>, gradient_den |-> 1, gradient_list |-> <<>>,
     gradient_local |-> Range(0, 0), gradient_sync_mode |-> "unset",
     fitness_for_update |-> "unset", update_noise_mode |-> "unset",
     gradient_for_update |-> Range(0, 0), gradient_for_sync |-> "unset",
     mutate_noise_mode |-> "unset", epsilon |-> 0,
     theta_noisy |-> <<>>, fitness_shaped |-> <<>>, shaped_den |-> 1,
     fold_offset |-> 0, num_elites |-> 0, elites |-> <<>>, population |-> <<>>,
     lr_theta |-> 0, lr_sigma |-> 0, utilities |-> <<>>, theta_gradient |-> <<>>,
     sigma_gradient |-> <<>>, exponent |-> <<>>, exponent_den |-> 1,
     model_grad |-> <<>>]

\* the constructor raised: no optimizer object exists
Raised(kind) == [Blank EXCEPT !.pc = "failed", !.error = kind]
Failed(o) == o.pc = "failed"

\* lst[i] of a Python list held as a sequence; i is in range
HasIndex(lst, i) == i >= 0 /\ i < Len(lst)
At(lst, i) == lst[i + 1]

\* DarwiNNOptimizer.__init__, from the sizes its first lines compute
BaseFields(rank, nodes, popsize, folds, fitness_list, local, model_adapt) ==
    IF ~HasIndex(fitness_list, local) THEN Raised("IndexError")
    ELSE Merge(Blank,
        [nodes |-> nodes, popsize |-> popsize, folds |-> folds,
         fitness_global |-> Full(popsize, Uninit),
         fitness_list |-> fitness_list,
         fitness_local |-> At(fitness_list, local),
         model_adapt |-> model_adapt,
         model |-> OwnModel(model_adapt),
         num_parameters |-> count_num_parameters(model_adapt),
         theta |-> FlattenInto(Full(count_num_parameters(model_adapt), Uninit), model_adapt),
         loss |-> [num |-> 0, den |-> 1],
         fitness_sync_mode |-> IF cfg.data_parallel THEN "AVERAGE" ELSE "GATHER",
         generation |-> 1])

\* a constructor that takes the requested popsize as it is
RequestedPopsize(popsize, nodes) == popsize

\* popsize rounded down to something divisible by the number of ranks
RoundedPopsize(popsize, nodes) == (popsize \div nodes) * nodes

BaseSized(rank, nodes, popsize) ==
    BaseFields(rank, nodes, popsize, popsize \div nodes, Chunk(popsize, nodes),
               IF nodes # 1 THEN rank ELSE 0,
               Unflatten(InitialParams(cfg.shapes), cfg.shapes))

ActiveNodes == IF cfg.data_parallel THEN 1 ELSE cfg.number_nodes

BaseInit(rank) == BaseSized(rank, ActiveNodes, RoundedPopsize(cfg.popsize, ActiveNodes))

\* NoiseGenerator(popsize, num_parameters, device, number_nodes, rank, ...):
\* the generator's parameters, its generation counter t and the calls made
\* to it so far
NoiseGenerator(popsize, num_parameters, number_nodes, rank, mutate_mode, update_mode) ==
    [popsize |-> popsize, num_parameters |-> num_parameters,
     number_nodes |-> number_nodes, rank |-> rank,
     mutate_mode |-> mutate_mode, update_mode |-> update_mode, t |-> 0,
     calls |-> <<>>]

\* the strategy table of OpenAIESOptimizer.__init__: the first branch taken
\* decides
SemiUpdatesGathered(whole) ==
    [fitness_sync_mode |-> "GATHER",
     gradient_sync_mode |-> "AVERAGE",
     fitness_for_update |-> "fitness_local",
     update_noise_mode |-> "SLICE_H",
     gradient_for_update |-> whole,
     gradient_for_sync |-> "gradient"]
SemiUpdates(whole) ==
    [fitness_sync_mode |-> "NONE",
     gradient_sync_mode |-> "AVERAGE",
     fitness_for_update |-> "fitness_local",
     update_noise_mode |-> "SLICE_H",
     gradient_for_update |-> whole,
     gradient_for_sync |-> "gradient"]
OrthogonalUpdates(gradient_local, limit) ==
    [gradient_sync_mode |-> "GATHER",
     fitness_for_update |-> "fitness_global",
     update_noise_mode |-> "SLICE_V",
     gradient_for_sync |-> "gradient_local",
     gradient_for_update |-> Range(gradient_local.off, Min(gradient_local.len, limit))]
PlainUpdates(whole) ==
    [gradient_sync_mode |-> "NONE",
     fitness_for_update |-> "fitness_global",
     update_noise_mode |-> "FULL",
     gradient_for_update |-> whole,
     gradient_for_sync |-> "gradient"]
UpdateStrategy(semi_updates, orthogonal_updates, whole, gradient_local, limit) ==
    IF semi_updates THEN SemiUpdates(whole)
    ELSE IF orthogonal_updates THEN OrthogonalUpdates(gradient_local, limit)
    ELSE PlainUpdates(whole)

MutateNoiseMode == IF cfg.data_parallel THEN "FULL" ELSE "SLICE_H"

ESFields(b, rank, gradients_len, gradient_list, gradient_local, strategy) ==
    Merge(Merge(b,
        [sigma |-> cfg.sigma,
         semi_updates |-> cfg.semi_updates,
         orthogonal_updates |-> cfg.orthogonal_updates,
         gradient |-> Full(gradients_len, Uninit),
         gradient_list |-> gradient_list,
         gradient_local |-> gradient_local,
         mutate_noise_mode |-> MutateNoiseMode,
         epsilon |-> NoiseGenerator(b.popsize, b.num_parameters, cfg.number_nodes,
                                    rank, MutateNoiseMode, strategy.update_noise_mode)]),
        strategy)

ESViews(b, rank, gradient_chunk_size, gradients_len, gradient_list, local) ==
    IF ~HasIndex(gradient_list, local) THEN Raised("IndexError")
    ELSE IF cfg.distribution \notin {"Gaussian", "Uniform"} THEN Raised("ValueError")
    ELSE ESFields(b, rank, gradients_len, gradient_list, At(gradient_list, local),
                  UpdateStrategy(cfg.semi_updates, cfg.orthogonal_updates,
                                 Range(0, gradients_len), At(gradient_list, local),
                                 Min(gradient_chunk_size,
                                     gradients_len - rank * gradient_chunk_size)))

ESSized(b, rank, gradient_chunk_size, gradients_len) ==
    ESViews(b, rank, gradient_chunk_size, gradients_len,
            Chunk(gradients_len, b.nodes), IF b.nodes # 1 THEN rank ELSE 0)

\* a constructor without the compatibility test
NothingIncompatible == FALSE

\* data-parallel evaluation with semi- or orthogonal updates is refused
IncompatibleUpdates == cfg.data_parallel /\ (cfg.orthogonal_updates \/ cfg.semi_updates)

\* OpenAIESOptimizer.__init__ after the base class's
ESFrom(b, rank) ==
    IF Failed(b) THEN b
    ELSE IF IncompatibleUpdates THEN Raised("Exception")
    ELSE ESSized(b, rank, CeilDiv(b.num_parameters, b.nodes),
                 IF cfg.orthogonal_updates
                 THEN CeilDiv(b.num_parameters, b.nodes) * b.nodes
                 ELSE b.num_parameters)

OpenAIESInit(rank) == ESFrom(BaseInit(rank), rank)

\* SNESOptimizer.__init__ after OpenAIESOptimizer's: sigma becomes a vector,
\* Theta starts at zero. lr_theta and lr_sigma are held in units of their
\* own value.
SNESFrom(e) ==
    IF Failed(e) THEN e
    ELSE Merge(e,
        [sigma |-> Full(e.num_parameters, cfg.sigma),
         lr_theta |-> 1,
         lr_sigma |-> 1,
         theta |-> Full(e.num_parameters, 0)])

SNESInit(rank) == SNESFrom(OpenAIESInit(rank))

\* int(popsize * elite_ratio)
NumElites(popsize) == (popsize * cfg.elite_ratio[1]) \div cfg.elite_ratio[2]

\* GAOptimizer.__init__ after the base class's
GAFrom(b, rank) ==
    IF Failed(b) THEN b
    ELSE Merge(b,
        [fold_offset |-> rank * b.folds,
         num_elites |-> NumElites(b.popsize),
         elites |-> [i \in 0 .. NumElites(b.popsize) - 1 |-> Full(b.num_parameters, 0)],
         population |-> [i \in 0 .. b.popsize - 1 |-> Full(b.num_parameters, 0)],
         sigma |-> cfg.sigma])

GAInit(rank) == GAFrom(BaseInit(rank), rank)

Constructor(rank) ==
    CASE cfg.strategy = "OpenAIES" -> OpenAIESInit(rank)
      [] cfg.strategy = "SNES" -> SNESInit(rank)
      [] cfg.strategy = "GA" -> GAInit(rank)

\* the caller holds the optimizer the constructor returned, if it returned
Constructed(o) == IF Failed(o) THEN o ELSE [o EXCEPT !.pc = "ready"]

\* rank n constructs its optimizer
Construct(n) ==
    /\ opt[n].pc = "new"
    /\ opt' = [opt EXCEPT ![n] = Constructed(Constructor(n))]
    /\ UNCHANGED <<cfg, net, hist>>

----------------------------------------------------------------------------
(* The collaborators: noise generator, fitness shaping, environment,        *)
(* external update rule                                                     *)

RECURSIVE SumTo(_, _)
\* f[0] + ... + f[n-1]
SumTo(f, n) == IF n = 0 THEN 0 ELSE f[n - 1] + SumTo(f, n - 1)
Sum(f) == SumTo(f, Size(f))

Sign(x) == IF x > 0 THEN 1 ELSE IF x < 0 THEN -1 ELSE 0
\* division of fixed-point values, rounded toward zero
Quot(a, b) == Sign(a) * Sign(b) * ((Sign(a) * a) \div (Sign(b) * b))

\* The noise of generation t for population member i and parameter j: a
\* fixed function of (t, i, j), so that every call and every node
\* reconstructs the same value.
NoiseBase(t, i, j) ==
    LET h == (7 * t + 3 * i + 5 * j + i * j) % 4
    IN  CASE h = 0 -> 1 [] h = 1 -> -2 [] h = 2 -> 2 [] h = 3 -> -1
\* antithetic sampling: the second half of the population mirrors the first
NoiseAt(eps, i, j) ==
    LET half == eps.popsize \div 2
    IN  IF i >= half /\ i < 2 * half
        THEN 0 - NoiseBase(eps.t, i - half, j)
        ELSE NoiseBase(eps.t, i, j)
NoiseRows(eps, mode) ==
    IF mode = "SLICE_H" THEN eps.popsize \div eps.number_nodes ELSE eps.popsize
NoiseCols(eps, mode) ==
    IF mode = "SLICE_V" THEN CeilDiv(eps.num_parameters, eps.number_nodes)
    ELSE eps.num_parameters
\* the rows x columns matrix of a layout: FULL is the whole matrix, SLICE_H
\* the rows of the rank's fold, SLICE_V the columns of the rank's shard
NoiseMatrix(eps, mode) ==
    [i \in 0 .. NoiseRows(eps, mode) - 1 |->
        [j \in 0 .. NoiseCols(eps, mode) - 1 |->
            NoiseAt(eps,
                    IF mode = "SLICE_H" THEN eps.rank * NoiseRows(eps, mode) + i ELSE i,
                    IF mode = "SLICE_V" THEN eps.rank * NoiseCols(eps, mode) + j ELSE j)]]
\* NoiseGenerator.step
NoiseStep(eps) == [eps EXCEPT !.t = @ + 1, !.calls = Append(@, "step")]
\* the generator after a call of generate_mutate_noise or generate_update_noise
Requested(eps, call) == [eps EXCEPT !.calls = Append(@, call)]
generate_mutate_noise(eps) == NoiseMatrix(eps, eps.mutate_mode)
generate_update_noise(eps) == NoiseMatrix(eps, eps.update_mode)

\* rank of x[i] among the elements of x, ties in index order
RankOf(x, i) == Cardinality({k \in DOMAIN x : x[k] < x[i] \/ (x[k] = x[i] /\ k < i)})
Negated(x) == [i \in DOMAIN x |-> 0 - x[i]]
\* compute_centered_ranks: ranks mapped linearly onto [-0.5, 0.5]; held as
\* the numerators 2*rank - (n-1) over the common denominator 2*(n-1)
CenteredRanks(x) == [i \in DOMAIN x |-> 2 * RankOf(x, i) - (Size(x) - 1)]
CenteredRanksDen(x) == 2 * (Size(x) - 1)
\* compute_normalized_ranks(x, r): the best ceil(r*n) members (lowest x)
\* share the positive weight by rank, and the weights sum to zero; r is 1/2.
\* Held as integer numerators n*w - sum(w).
RankWeight(x, i) == Max(0, CeilDiv(Size(x), 2) - RankOf(x, i))
NormalizedRanks(x) ==
    [i \in DOMAIN x |->
        Size(x) * RankWeight(x, i) - Sum([k \in DOMAIN x |-> RankWeight(x, k)])]

\* torch.mv(U.t(), w) / torch.mm(U.t(), w) for a rows x cols matrix U
Cols(U) == IF Size(U) = 0 THEN 0 ELSE Size(U[0])
TransposeMv(U, w) ==
    [j \in 0 .. Cols(U) - 1 |-> Sum([i \in DOMAIN U |-> U[i][j] * w[i]])]

\* the external update rule's step on model_adapt: one descent step of fixed
\* length against the sign of each parameter's gradient
OptimizerStep(params, grads) ==
    [k \in DOMAIN params |-> [i \in DOMAIN params[k] |-> params[k][i] - Sign(grads[k][i])]]

\* Environment.synchronize is collective: a rank's k-th call that
\* communicates (AVERAGE, GATHER) posts its tensor and returns once every
\* rank has posted its k-th; net[m] holds what rank m has posted so far.
Posted(o, mode, tensor) == IF mode = "NONE" THEN <<>> ELSE <<tensor>>
Arrived(n, mode) == mode = "NONE" \/ \A m \in Ranks : Len(net[m]) >= Len(net[n])
\* what rank m posted in the collective rank n is in
PostOf(n, m) == net[m][Len(net[n])]
\* AVERAGE: the all-reduced mean of the posted tensors
Averaged(n, len) ==
    [i \in 0 .. len - 1 |-> Sum([m \in Ranks |-> PostOf(n, m)[i]]) \div cfg.number_nodes]
\* the sum of the posted tensors (the mean's numerator)
Summed(n, len) == [i \in 0 .. len - 1 |-> Sum([m \in Ranks |-> PostOf(n, m)[i]])]
\* GATHER: lst[m] receives what rank m posted
RECURSIVE GatherInto(_, _, _, _)
GatherInto(t, lst, n, m) ==
    IF m = 0 THEN t
    ELSE GatherInto(WriteView(t, lst[m], PostOf(n, m - 1)), lst, n, m - 1)
Gathered(t, lst, n) == GatherInto(t, lst, n, Min(Len(lst), cfg.number_nodes))

----------------------------------------------------------------------------
(* One generation: step() and the hooks of each strategy *)

\* the hooks step() calls, in its order
StepOrder == <<"mutate", "eval_fitness", "synchronize", "select", "adapt">>

IsES == cfg.strategy \in {"OpenAIES", "SNES"}

\* a loss the criterion may return; multiples of the node count, so that the
\* mean of one value per node is again such a value
LossValues == {k * cfg.number_nodes : k \in 0 .. MaxLoss}

\* the tensors the optimizer's aliases name
FitnessLocal(o) == ViewOf(o.fitness_global, o.fitness_local)
FitnessForUpdate(o) ==
    IF o.fitness_for_update = "fitness_local" THEN FitnessLocal(o) ELSE o.fitness_global
GradientForSync(o) ==
    IF o.gradient_for_sync = "gradient_local" THEN ViewOf(o.gradient, o.gradient_local)
    ELSE o.gradient

\* step() raised: the exception leaves the call and the caller's loop
Raise(o, kind) == [o EXCEPT !.pc = "raised", !.error = kind]

\* Generations are explored where rank shaping is defined: at least two
\* fitness values to rank.
Shapeable(o) == IsES => o.popsize >= 2 /\ (o.semi_updates => o.folds >= 2)

\* theta + noise * sigma, sigma a scalar (OpenAI-ES) or a vector (SNES)
Noisy(theta, E, sigma) ==
    [i \in DOMAIN E |->
        [j \in DOMAIN theta |->
            theta[j] + E[i][j] * (IF cfg.strategy = "SNES" THEN sigma[j] ELSE sigma)]]

\* a mutate that perturbs Theta in place
ESMutateInPlace(o, eps) ==
    [o EXCEPT !.epsilon = Requested(eps, "generate_mutate_noise"),
              !.theta_noisy = Noisy(o.theta, generate_mutate_noise(eps), o.sigma),
              !.theta = Noisy(o.theta, generate_mutate_noise(eps), o.sigma)[0],
              !.pc = "mutated"]

\* OpenAIESOptimizer.mutate
ESMutateWith(o, eps) ==
    [o EXCEPT !.epsilon = Requested(eps, "generate_mutate_noise"),
              !.theta_noisy = Noisy(o.theta, generate_mutate_noise(eps), o.sigma),
              !.pc = "mutated"]
\* a mutate that does not advance the generator
ESMutateNoStep(o) == ESMutateWith(o, o.epsilon)
ESMutate(o) == ESMutateWith(o, NoiseStep(o.epsilon))

\* what GAOptimizer.mutate draws for one generated row: two parent indices,
\* the crossover mask and the mutation noise (here one of two vectors)
GaNoise(len) == {Full(len, -1), Full(len, 1)}
GaDraws(o) ==
    [idx1 : 0 .. o.num_elites - 1, idx2 : 0 .. o.num_elites - 1,
     mask : [0 .. o.num_parameters - 1 -> {0, 1}],
     noise : GaNoise(o.num_parameters)]
\* a crossover that adds the masked parents
OffspringSum(o, d) ==
    [j \in 0 .. o.num_parameters - 1 |->
        o.elites[d.idx1][j] * d.mask[j] + o.elites[d.idx2][j] * d.mask[j]
        + d.noise[j] * o.sigma]

\* crossover of two elites under the mask, plus the mutation noise
Offspring(o, d) ==
    [j \in 0 .. o.num_parameters - 1 |->
        o.elites[d.idx1][j] * d.mask[j] + o.elites[d.idx2][j] * (1 - d.mask[j])
        + d.noise[j] * o.sigma]
\* the rows some draw generates
GaOffspring(o) == {Offspring(o, d) : d \in GaDraws(o)}
\* GAOptimizer.mutate, rows the generated rows; without elites the first
\* draw of a parent index raises
GAMutate(o, rows) ==
    IF o.num_elites = 0 /\ o.popsize > 0 THEN Raise(o, "RuntimeError")
    ELSE [o EXCEPT !.population =
                       [i \in 0 .. o.popsize - 1 |->
                           IF i < o.num_elites THEN o.elites[i] ELSE rows[i]],
                   !.pc = "mutated"]

StartStep(n) == hist' = [hist EXCEPT ![n].ops = <<"mutate">>]
Did(n, hook) == hist' = [hist EXCEPT ![n].ops = Append(@, hook)]

\* step() is called and runs mutate(), while the rank has evaluations left
MutateWithin(n, evals) ==
    /\ opt[n].pc = "ready"
    /\ opt[n].generation <= MaxGen
    /\ opt[n].generation * opt[n].folds <= evals
    /\ Shapeable(opt[n])
    /\ IF IsES
       THEN opt' = [opt EXCEPT ![n] = ESMutate(@)]
       ELSE \E rows \in [opt[n].num_elites .. opt[n].popsize - 1 -> GaOffspring(opt[n])] :
                opt' = [opt EXCEPT ![n] = GAMutate(@, rows)]
    /\ StartStep(n)
    /\ UNCHANGED <<cfg, net>>
Mutate(n) == MutateWithin(n, MaxEvals)

Mean(f) == [num |-> Sum(f), den |-> Size(f)]

\* an eval_fitness that writes its losses at the head of fitness_global
ESEvalFitnessAtHead(o, f) ==
    [o EXCEPT !.fitness_global = WriteView(@, Range(0, Size(f)), f),
              !.model = IF o.folds > 0
                        THEN OwnModel(Unflatten(o.theta_noisy[o.folds - 1], cfg.shapes))
                        ELSE @,
              !.loss = Mean(f),
              !.pc = "evaluated"]

\* OpenAIESOptimizer.eval_fitness, f the losses of the fold's members
ESEvalFitness(o, f) ==
    [o EXCEPT !.fitness_global = WriteView(@, o.fitness_local, f),
              !.model = IF o.folds > 0
                        THEN OwnModel(Unflatten(o.theta_noisy[o.folds - 1], cfg.shapes))
                        ELSE @,
              !.loss = Mean(f),
              !.pc = "evaluated"]

\* GAOptimizer.eval_fitness: the rows fold_offset + i are evaluated while
\* they exist; a row index past the population raises
GARowsInRange(o) == Max(0, Min(o.folds, o.popsize - o.fold_offset))
GAEvalRows(o, f, rows) ==
    [o EXCEPT !.fitness_global = WriteView(@, Range(o.fitness_local.off, rows), f),
              !.model = IF rows > 0
                        THEN [view |-> "population", params |-> <<>>,
                              row |-> o.fold_offset + rows - 1]
                        ELSE @]
GAEvalFitness(o, f) ==
    IF GARowsInRange(o) < o.folds
    THEN Raise(GAEvalRows(o, f, GARowsInRange(o)), "IndexError")
    ELSE [GAEvalRows(o, f, o.folds) EXCEPT !.loss = Mean(f), !.pc = "evaluated"]

\* the members of the population eval_fitness evaluates, in fold order
Members(o) ==
    IF IsES THEN [i \in 0 .. o.folds - 1 |-> o.theta_noisy[i]]
    ELSE [i \in 0 .. GARowsInRange(o) - 1 |-> o.population[o.fold_offset + i]]

EvalFitness(n) ==
    /\ opt[n].pc = "mutated"
    /\ \E f \in [0 .. opt[n].folds - 1 -> LossValues] :
        /\ opt' = [opt EXCEPT ![n] = IF IsES THEN ESEvalFitness(@, f) ELSE GAEvalFitness(@, f)]
        /\ hist' = [hist EXCEPT ![n].ops = Append(@, "eval_fitness"),
                                ![n].evals = Append(@, f),
                                ![n].members = Append(@, Members(opt[n]))]
    /\ UNCHANGED <<cfg, net>>

\* a step() that goes from eval_fitness to select without synchronize
SkipSynchronize(n) ==
    /\ opt[n].pc = "evaluated"
    /\ opt' = [opt EXCEPT ![n].pc = "synced"]
    /\ Did(n, "synchronize")
    /\ UNCHANGED <<cfg, net>>

\* environment.synchronize(fitness_local, mode, lst=fitness_list) is entered
SyncFitnessCall(n) ==
    /\ opt[n].pc = "evaluated"
    /\ net' = [net EXCEPT ![n] = @ \o Posted(opt[n], opt[n].fitness_sync_mode,
                                             FitnessLocal(opt[n]))]
    /\ opt' = [opt EXCEPT ![n].pc = "fitness_sync"]
    /\ Did(n, "synchronize")
    /\ UNCHANGED cfg

SyncedFitness(o, n) ==
    CASE o.fitness_sync_mode = "NONE" -> o.fitness_global
      [] o.fitness_sync_mode = "AVERAGE" ->
            WriteView(o.fitness_global, o.fitness_local, Averaged(n, o.fitness_local.len))
      [] o.fitness_sync_mode = "GATHER" -> Gathered(o.fitness_global, o.fitness_list, n)

\* ... and returns
SyncFitnessReturn(n) ==
    /\ opt[n].pc = "fitness_sync"
    /\ Arrived(n, opt[n].fitness_sync_mode)
    /\ opt' = [opt EXCEPT ![n].fitness_global = SyncedFitness(opt[n], n),
                          ![n].pc = "synced"]
    /\ UNCHANGED <<cfg, net, hist>>

\* OpenAIESOptimizer.select
ESSelect(o, fitness) ==
    [o EXCEPT !.fitness_shaped = CenteredRanks(Negated(fitness)),
              !.shaped_den = CenteredRanksDen(fitness),
              !.pc = "selected"]
\* SNESOptimizer.select
SNESSelect(o, fitness) ==
    [o EXCEPT !.fitness_shaped = NormalizedRanks(fitness),
              !.utilities = NormalizedRanks(fitness),
              !.pc = "selected"]
\* the orders fitness_global.sort() may return the indices in: ascending
\* by value, equal values in any order
SortOrders(x) ==
    {ind \in [DOMAIN x -> DOMAIN x] :
        /\ \A a, b \in DOMAIN x : a # b => ind[a] # ind[b]
        /\ \A a, b \in DOMAIN x : a < b => x[ind[a]] <= x[ind[b]]}
\* GAOptimizer.select
GASelect(o, ind) ==
    [o EXCEPT !.elites = [k \in 0 .. o.num_elites - 1 |-> o.population[ind[k]]],
              !.pc = "selected"]

Select(n) ==
    /\ opt[n].pc = "synced"
    /\ CASE cfg.strategy = "OpenAIES" ->
              opt' = [opt EXCEPT ![n] = ESSelect(@, FitnessForUpdate(@))]
         [] cfg.strategy = "SNES" ->
              opt' = [opt EXCEPT ![n] = SNESSelect(@, FitnessForUpdate(@))]
         [] cfg.strategy = "GA" ->
              \E ind \in SortOrders(opt[n].fitness_global) :
                  opt' = [opt EXCEPT ![n] = GASelect(@, ind)]
    /\ Did(n, "select")
    /\ UNCHANGED <<cfg, net>>

\* OpenAIESOptimizer.adapt up to its synchronize call: the raw gradient
\* noise^T . shaped fitness is written through gradient_for_update (an
\* output of another length than the whole gradient tensor resizes it)
\* an adapt that writes the raw gradient at the head of the buffer
ESGradientAtHead(o, g) ==
    [o EXCEPT !.gradient = IF o.gradient_for_update = Range(0, Size(o.gradient))
                           THEN g
                           ELSE WriteView(@, Range(0, Size(g)), g),
              !.gradient_den = o.shaped_den,
              !.pc = "gradient_sync"]
ESGradient(o, g) ==
    [o EXCEPT !.gradient = IF o.gradient_for_update = Range(0, Size(o.gradient))
                           THEN g
                           ELSE WriteView(@, o.gradient_for_update, g),
              !.gradient_den = o.shaped_den,
              !.pc = "gradient_sync"]
ESAdaptGradient(o, U) ==
    IF Size(U) # Size(o.fitness_shaped)
    THEN Raise([o EXCEPT !.epsilon = Requested(@, "generate_update_noise")],
               "RuntimeError")
    ELSE ESGradient([o EXCEPT !.epsilon = Requested(@, "generate_update_noise")],
                    TransposeMv(U, o.fitness_shaped))

AdaptGradient(n) ==
    /\ cfg.strategy = "OpenAIES"
    /\ opt[n].pc = "selected"
    /\ \E o \in {ESAdaptGradient(opt[n], generate_update_noise(opt[n].epsilon))} :
        /\ opt' = [opt EXCEPT ![n] = o]
        /\ net' = [net EXCEPT ![n] =
                      IF o.pc = "raised" THEN @
                      ELSE @ \o Posted(o, o.gradient_sync_mode, GradientForSync(o))]
    /\ Did(n, "adapt")
    /\ UNCHANGED cfg

\* the gradient after synchronize(gradient_for_sync, mode, lst=gradient_list)
SyncedGradient(o, n) ==
    CASE o.gradient_sync_mode = "NONE" -> o.gradient
      [] o.gradient_sync_mode = "AVERAGE" -> Summed(n, Size(o.gradient))
      [] o.gradient_sync_mode = "GATHER" -> Gathered(o.gradient, o.gradient_list, n)
\* AVERAGE divides the sum by the node count
SyncedDen(o) ==
    IF o.gradient_sync_mode = "AVERAGE" THEN o.gradient_den * cfg.number_nodes
    ELSE o.gradient_den

\* the rest of adapt: normalize, hand -gradient to the update rule, step it,
\* re-extract Theta
ESUpdated(o, model_adapt) ==
    [o EXCEPT !.model_adapt = model_adapt,
              !.theta = FlattenInto(@, model_adapt),
              !.pc = "adapted"]
ESStepped(o, grads) ==
    ESUpdated([o EXCEPT !.model_grad = grads], OptimizerStep(o.model_adapt, grads))
\* a write-back that reads the last num_parameters entries of the buffer
update_grad_tail(grad) ==
    Unflatten([j \in 0 .. SumSeq(cfg.shapes) - 1 |->
                  grad[j + Size(grad) - SumSeq(cfg.shapes)]],
              cfg.shapes)
\* update_grad(grad): parameter k's gradient is grad[idx : idx + numel]
update_grad(grad) == Unflatten(grad, cfg.shapes)
\* an adapt that hands the gradient itself to the update rule
ESNotNegated(o, gradient, den) ==
    ESStepped([o EXCEPT !.gradient = gradient, !.gradient_den = den * (o.sigma * o.popsize)],
              update_grad(gradient))
ESNormalized(o, gradient, den) ==
    ESStepped([o EXCEPT !.gradient = gradient, !.gradient_den = den * (o.sigma * o.popsize)],
              update_grad(Negated(gradient)))
ESAdaptUpdate(o, n) == ESNormalized(o, SyncedGradient(o, n), SyncedDen(o))

AdaptUpdate(n) ==
    /\ opt[n].pc = "gradient_sync"
    /\ Arrived(n, opt[n].gradient_sync_mode)
    /\ opt' = [opt EXCEPT ![n] = ESAdaptUpdate(@, n)]
    /\ UNCHANGED <<cfg, net, hist>>

\* sigma * exp(exponent) in fixed point: doubled for a positive exponent,
\* halved (not below one unit) for a negative one
ExpMul(sigma, exponent) ==
    IF exponent > 0 THEN 2 * sigma
    ELSE IF exponent < 0 THEN Max(1, sigma \div 2) ELSE sigma
Squared(U) == [i \in DOMAIN U |-> [j \in DOMAIN U[i] |-> U[i][j] * U[i][j] - 1]]

\* SNESOptimizer.update_dist; the exponent 0.5 * lr_sigma * sigma_gradient is
\* held as the numerator lr_sigma * sigma_gradient over the denominator 2
update_dist(o, tg, sg) ==
    [o EXCEPT !.theta_gradient = tg,
              !.theta = [j \in DOMAIN @ |-> @[j] + o.lr_theta * tg[j]],
              !.sigma_gradient = sg,
              !.exponent = [j \in DOMAIN sg |-> o.lr_sigma * sg[j]],
              !.exponent_den = 2,
              !.sigma = [j \in DOMAIN @ |-> ExpMul(@[j], o.lr_sigma * sg[j])]]
\* theta_gradient /= popsize; theta_gradient /= sigma
ScaledGradient(o, tg) ==
    [j \in DOMAIN tg |-> Quot(Quot(tg[j], o.popsize), o.sigma[j])]
\* SNESOptimizer.adapt: no synchronize call; the views to num_parameters
\* raise when the update noise has another number of columns
SNESAdaptWith(o, tg, sg) ==
    [update_dist(o, ScaledGradient(o, tg), sg)
        EXCEPT !.model = [view |-> "theta", params |-> <<>>, row |-> 0],
               !.epsilon = Requested(Requested(Requested(@,
                               "generate_update_noise"),
                               "generate_update_noise"),
                               "generate_update_noise"),
               !.pc = "adapted"]
SNESAdapt(o, U) ==
    IF Size(U) # Size(o.utilities) \/ Cols(U) # o.num_parameters
    THEN Raise([o EXCEPT !.epsilon = Requested(@, "generate_update_noise")],
               "RuntimeError")
    ELSE SNESAdaptWith(o, TransposeMv(U, o.utilities), TransposeMv(Squared(U), o.utilities))

\* an adapt that installs the best elite in the canonical model
GAAdaptElite(o) ==
    [o EXCEPT !.model_adapt = IF o.num_elites > 0
                              THEN Unflatten(o.elites[0], cfg.shapes) ELSE @,
              !.pc = "adapted"]
\* GAOptimizer.adapt
GAAdapt(o) == [o EXCEPT !.pc = "adapted"]

Adapt(n) ==
    /\ cfg.strategy # "OpenAIES"
    /\ opt[n].pc = "selected"
    /\ opt' = [opt EXCEPT ![n] = IF cfg.strategy = "SNES"
                                 THEN SNESAdapt(@, generate_update_noise(@.epsilon))
                                 ELSE GAAdapt(@)]
    /\ Did(n, "adapt")
    /\ UNCHANGED <<cfg, net>>

\* a step() that counts the generation twice
StepReturnTwice(n) ==
    /\ opt[n].pc = "adapted"
    /\ opt' = [opt EXCEPT ![n].generation = @ + 2, ![n].pc = "ready"]
    /\ hist' = [hist EXCEPT ![n].completed = @ + 1]
    /\ UNCHANGED <<cfg, net>>

\* self.generation += 1 and step() returns
StepReturn(n) ==
    /\ opt[n].pc = "adapted"
    /\ opt' = [opt EXCEPT ![n].generation = @ + 1, ![n].pc = "ready"]
    /\ hist' = [hist EXCEPT ![n].completed = @ + 1]
    /\ UNCHANGED <<cfg, net>>

----------------------------------------------------------------------------
(* The other public operations, called between generations *)

\* DarwiNNOptimizer.eval_theta evaluates model_adapt; SNESOptimizer.eval_theta
\* first puts Theta into the evaluation model and evaluates that
eval_theta(o, l) ==
    [o EXCEPT !.loss = [num |-> l, den |-> 1],
              !.model = IF cfg.strategy = "SNES"
                        THEN [view |-> "theta", params |-> <<>>, row |-> 0]
                        ELSE @]
\* an eval_theta that calls the evaluation copy as it stands
EvaluatedCopy(o) == ModelParams(o)

\* the parameters of the model eval_theta calls: model_adapt, for SNES the
\* evaluation copy after update_model(theta)
EvaluatedModel(o) ==
    IF cfg.strategy = "SNES" THEN Unflatten(o.theta, cfg.shapes) ELSE o.model_adapt

\* the caller tests between epochs on rank 0
EvalTheta(n) ==
    /\ n = 0
    /\ opt[n].pc = "ready"
    /\ \E l \in LossValues :
        /\ opt' = [opt EXCEPT ![n] = eval_theta(@, l)]
        /\ hist' = [hist EXCEPT ![n].evaluated = EvaluatedModel(opt[n]),
                                ![n].returned = l]
    /\ UNCHANGED <<cfg, net>>

\* update_model(v) for a vector v of the caller
update_model(o, v) == [o EXCEPT !.model = OwnModel(Unflatten(v, cfg.shapes))]
\* an update_theta that reads the evaluation model
update_theta_of_model(o) == [o EXCEPT !.theta = FlattenInto(@, ModelParams(o))]

\* update_theta()
update_theta(o) == [o EXCEPT !.theta = FlattenInto(@, o.model_adapt)]

\* vectors a caller may hand to update_model
Vectors(len) == {[j \in 0 .. len - 1 |-> 10 * (j + 1)],
                 [j \in 0 .. len - 1 |-> 7 - j],
                 [j \in 0 .. len - 1 |-> 0]}

UpdateModel(n) ==
    /\ opt[n].pc = "ready"
    /\ \E v \in Vectors(opt[n].num_parameters) :
        /\ opt' = [opt EXCEPT ![n] = update_model(@, v)]
        /\ hist' = [hist EXCEPT ![n].marshal = [v |-> v, stage |-> "update_model"]]
    /\ UNCHANGED <<cfg, net>>

UpdateTheta(n) ==
    /\ opt[n].pc = "ready"
    /\ opt' = [opt EXCEPT ![n] = update_theta(@)]
    /\ hist' = [hist EXCEPT ![n].marshal =
                   IF @.stage = "update_model" THEN [@ EXCEPT !.stage = "update_theta"]
                   ELSE [@ EXCEPT !.stage = "none"]]
    /\ UNCHANGED <<cfg, net>>

----------------------------------------------------------------------------
(* Specifications *)

\* what has happened on a rank: the hooks the current step() call has run,
\* the step() calls that returned, the fold written by each eval_fitness and
\* the members it evaluated, the
\* parameters eval_theta last evaluated and the loss the criterion returned
\* for them, the last update_model/update_theta
NoHistory ==
    [ops |-> <<>>, completed |-> 0, evals |-> <<>>, members |-> <<>>,
     evaluated |-> <<>>, returned |-> 0,
     marshal |-> [v |-> <<>>, stage |-> "none"]]

InitWith(configs) ==
    /\ cfg \in {c \in configs : WellFormed(c)}
    /\ opt = [n \in Ranks |-> Blank]
    /\ net = [n \in Ranks |-> <<>>]
    /\ hist = [n \in Ranks |-> NoHistory]

\* construction alone, over a wide range of arguments
InitCtor ==
    InitWith(Configs(Strategies, MaxCtorNodes, MaxCtorPop, CtorParamShapes, Distributions))
NextCtor ==
    \/ \E n \in Ranks : Construct(n)
SpecCtor == InitCtor /\ [][NextCtor]_vars

\* construction and generations
Init ==
    InitWith(Configs(Strategies, MaxNodes, MaxPop, ParamShapes, {"Gaussian"}))
Next ==
    \/ \E n \in Ranks : Construct(n)
    \/ \E n \in Ranks : Mutate(n)
    \/ \E n \in Ranks : EvalFitness(n)
    \/ \E n \in Ranks : SyncFitnessCall(n)
    \/ \E n \in Ranks : SyncFitnessReturn(n)
    \/ \E n \in Ranks : Select(n)
    \/ \E n \in Ranks : AdaptGradient(n)
    \/ \E n \in Ranks : AdaptUpdate(n)
    \/ \E n \in Ranks : Adapt(n)
    \/ \E n \in Ranks : StepReturn(n)
    \/ \E n \in Ranks : EvalTheta(n)
Spec == Init /\ [][Next]_vars

\* the genetic algorithm on one node, over whole generations
GAEliteRatios == {<<1, 2>>, <<2, 3>>}
GAConfigs ==
    {[c EXCEPT !.elite_ratio = r] :
        c \in Configs({"GA"}, 1, MaxPop, ParamShapes, {"Gaussian"}),
        r \in GAEliteRatios}
InitGA == InitWith(GAConfigs)
NextGA ==
    \/ \E n \in Ranks : Construct(n)
    \/ \E n \in Ranks : MutateWithin(n, MaxGAEvals)
    \/ \E n \in Ranks : EvalFitness(n)
    \/ \E n \in Ranks : SyncFitnessCall(n)
    \/ \E n \in Ranks : SyncFitnessReturn(n)
    \/ \E n \in Ranks : Select(n)
    \/ \E n \in Ranks : Adapt(n)
    \/ \E n \in Ranks : StepReturn(n)
    \/ \E n \in Ranks : EvalTheta(n)
SpecGA == InitGA /\ [][NextGA]_vars

\* construction and parameter marshalling
NextMarshal ==
    \/ \E n \in Ranks : Construct(n)
    \/ \E n \in Ranks : UpdateModel(n)
    \/ \E n \in Ranks : UpdateTheta(n)
SpecMarshal == Init /\ [][NextMarshal]_vars

----------------------------------------------------------------------------
(* Properties *)

Exists(o) == o.pc \notin {"new", "failed"}
\* the hooks a step() call has run when the rank is at pc
HooksAt(pc) ==
    CASE pc = "mutated" -> 1
      [] pc = "evaluated" -> 2
      [] pc \in {"fitness_sync", "synced"} -> 3
      [] pc = "selected" -> 4
      [] pc \in {"gradient_sync", "adapted"} -> 5
IsPrefix(s, t) == Len(s) <= Len(t) /\ s = SubSeq(t, 1, Len(s))

\* C1: a step() call runs mutate, eval_fitness, the fitness synchronize,
\* select and adapt once each in that order and only then adds 1 to the
\* generation; the generation starts at 1, is 1 + the number of completed
\* step() calls, and nothing else changes it.
C1_Hooks ==
    \A n \in Ranks :
        Exists(opt[n]) =>
            /\ IsPrefix(hist[n].ops, StepOrder)
            /\ opt[n].pc \notin {"ready", "raised"} => Len(hist[n].ops) = HooksAt(opt[n].pc)
            /\ opt[n].pc = "ready" =>
                   hist[n].ops = IF hist[n].completed = 0 THEN <<>> ELSE StepOrder
            /\ opt[n].generation = 1 + hist[n].completed
C1_Counter ==
    \A n \in Ranks :
        opt'[n].generation # opt[n].generation =>
            \/ opt[n].pc = "new" /\ opt'[n].generation = 1
            \/ /\ opt[n].pc = "adapted" /\ opt'[n].pc = "ready"
               /\ hist[n].ops = StepOrder
               /\ opt'[n].generation = opt[n].generation + 1
               /\ hist'[n].completed = hist[n].completed + 1
C1_StepOrder == []C1_Hooks /\ [][C1_Counter]_vars
C1_Witness ==
    \E n \in Ranks :
        /\ opt[n].pc = "ready" /\ hist[n].completed = 2 /\ opt[n].generation = 3
        /\ hist[n].ops = StepOrder

\* C2: the constructed popsize is the largest multiple of the active node
\* count N not above the request, folds = popsize / N, the fitness vector
\* has length popsize and every fitness_list entry has length folds.
C2_PopulationFolds ==
    \A n \in Ranks :
        Exists(opt[n]) =>
            /\ opt[n].nodes = (IF cfg.data_parallel THEN 1 ELSE cfg.number_nodes)
            /\ opt[n].popsize % opt[n].nodes = 0
            /\ opt[n].popsize <= cfg.popsize
            /\ cfg.popsize - opt[n].popsize < opt[n].nodes
            /\ opt[n].folds * opt[n].nodes = opt[n].popsize
            /\ Size(opt[n].fitness_global) = opt[n].popsize
            /\ \A k \in 1 .. Len(opt[n].fitness_list) : opt[n].fitness_list[k].len = opt[n].folds
            /\ opt[n].fitness_local.len = opt[n].folds
C2_Witness ==
    \E n \in Ranks :
        /\ opt[n].pc = "ready" /\ ~cfg.data_parallel
        /\ cfg.number_nodes = 3 /\ cfg.popsize = 5
        /\ opt[n].popsize = 3 /\ opt[n].folds = 1 /\ Len(opt[n].fitness_list) = 3

\* the step() calls rank m has entered
InStep(o) == o.pc \notin {"new", "failed", "ready"}
Entered(m) == hist[m].completed + (IF InStep(opt[m]) THEN 1 ELSE 0)

\* C3: with more than one node, no node returns from its g-th step() call
\* before every node has entered its g-th step() call, for every strategy
\* and every distributed mode the constructor accepts.
C3_StepBarrier ==
    cfg.number_nodes > 1 =>
        \A n, m \in Ranks : Exists(opt[n]) => hist[n].completed <= Entered(m)

\* C4: where the fitness synchronization is GATHER, when select() of
\* generation g is about to run on a node, every entry of its fitness_global
\* is the value the entry's owner wrote in eval_fitness of generation g.
C4_GatheredFitness ==
    \A n \in Ranks :
        opt[n].pc = "synced" /\ opt[n].fitness_sync_mode = "GATHER" =>
            /\ Size(opt[n].fitness_global) = opt[n].popsize
            /\ \A m \in Ranks : \A i \in 0 .. opt[n].folds - 1 :
                   /\ Len(hist[m].evals) >= opt[n].generation
                   /\ opt[n].fitness_global[m * opt[n].folds + i]
                         = hist[m].evals[opt[n].generation][i]
C4_Witness ==
    \E n \in Ranks :
        /\ opt[n].pc = "synced" /\ opt[n].fitness_sync_mode = "GATHER"
        /\ cfg.number_nodes = 2 /\ opt[n].generation = 2
        /\ \A m \in Ranks : hist[m].evals[1] # hist[m].evals[2]

\* C5: population-parallel, rank r: eval_fitness writes no fitness entry
\* outside r*folds .. (r+1)*folds-1, and an entry outside the rank's own
\* fold changes only when the synchronize call returns.
OwnFold(n, i) == i >= n * opt[n].folds /\ i < (n + 1) * opt[n].folds
C5_Frame ==
    \A n \in Ranks :
        Exists(opt[n]) /\ ~cfg.data_parallel =>
            /\ DOMAIN opt'[n].fitness_global = DOMAIN opt[n].fitness_global
            /\ \A i \in DOMAIN opt[n].fitness_global :
                   opt'[n].fitness_global[i] # opt[n].fitness_global[i] =>
                       \/ opt[n].pc = "mutated" /\ OwnFold(n, i)
                       \/ opt[n].pc = "fitness_sync" /\ opt'[n].pc = "synced"
C5_OwnFoldOnly == [][C5_Frame]_vars
C5_Witness ==
    \E n \in Ranks :
        /\ n = 1 /\ opt[n].pc = "evaluated" /\ opt[n].generation = 2
        /\ ~cfg.data_parallel /\ opt[n].fitness_sync_mode = "GATHER"
        /\ opt[n].fitness_global[0] = hist[0].evals[1][0]
        /\ opt[n].fitness_global[1] = hist[1].evals[2][0]
        /\ hist[1].evals[2][0] # hist[1].evals[1][0]

\* C6: a constructed OpenAIESOptimizer has (mutate layout, update layout,
\* fitness sync mode, gradient sync mode) equal to its row of the strategy
\* table at all times; the mutate layout is never SLICE_V.
StrategyRow(o) ==
    <<o.mutate_noise_mode, o.update_noise_mode, o.fitness_sync_mode, o.gradient_sync_mode>>
TableRow(semi, orthogonal, data_parallel) ==
    IF semi THEN <<"SLICE_H", "SLICE_H", "NONE", "AVERAGE">>
    ELSE IF orthogonal THEN <<"SLICE_H", "SLICE_V", "GATHER", "GATHER">>
    ELSE IF data_parallel THEN <<"FULL", "FULL", "AVERAGE", "NONE">>
    ELSE <<"SLICE_H", "FULL", "GATHER", "NONE">>
C6_StrategyTable ==
    \A n \in Ranks :
        IsES /\ Exists(opt[n]) =>
            /\ StrategyRow(opt[n])
                  = TableRow(cfg.semi_updates, cfg.orthogonal_updates, cfg.data_parallel)
            /\ opt[n].epsilon.mutate_mode = opt[n].mutate_noise_mode
            /\ opt[n].epsilon.update_mode = opt[n].update_noise_mode
            /\ opt[n].mutate_noise_mode # "SLICE_V"
C6_Witness ==
    \E n \in Ranks :
        /\ cfg.strategy = "OpenAIES" /\ cfg.semi_updates /\ ~cfg.orthogonal_updates
        /\ cfg.number_nodes = 2 /\ hist[n].completed = 1
        /\ StrategyRow(opt[n]) = <<"SLICE_H", "SLICE_H", "NONE", "AVERAGE">>

\* C7: with data_parallel and semi_updates or orthogonal_updates the
\* constructor of OpenAIESOptimizer (SNESOptimizer) raises: no optimizer
\* exists, no step() hook runs and no collective is entered.
C7_IncompatibleRaises ==
    IsES /\ cfg.data_parallel /\ (cfg.semi_updates \/ cfg.orthogonal_updates) =>
        \A n \in Ranks :
            /\ opt[n].pc \in {"new", "failed"}
            /\ opt[n].pc = "failed" => opt[n].error = "Exception"
            /\ hist[n].ops = <<>> /\ hist[n].completed = 0 /\ net[n] = <<>>
C7_Witness ==
    \E n \in Ranks :
        /\ IsES /\ cfg.data_parallel /\ cfg.orthogonal_updates /\ ~cfg.semi_updates
        /\ opt[n].pc = "failed" /\ opt[n].error = "Exception"

\* C8: constructing an OpenAIESOptimizer with both semi_updates and
\* orthogonal_updates set is rejected at construction.
C8_Exclusive ==
    IsES /\ cfg.semi_updates /\ cfg.orthogonal_updates =>
        \A n \in Ranks : ~Exists(opt[n])

\* C9: for a requested popsize >= 1 no constructed optimizer has popsize 0;
\* folds >= 1 in every constructed optimizer.
C9_PositivePopsize ==
    \A n \in Ranks : Exists(opt[n]) => opt[n].popsize > 0 /\ opt[n].folds >= 1

\* the elements of the parameter tensors one after the other
RECURSIVE Flattened(_)
Flattened(params) ==
    IF params = <<>> THEN <<>> ELSE Concat(Head(params), Flattened(Tail(params)))

\* C10 as stated: after update_model(v) and then update_theta(), Theta = v.
C10_RoundTrip ==
    \A n \in Ranks :
        hist[n].marshal.stage = "update_theta" => opt[n].theta = hist[n].marshal.v

\* C10: update_model(v) puts v, in parameters() order, into the evaluation
\* model and leaves the canonical model (model_adapt) as it was;
\* update_theta() sets Theta to the parameters of the canonical model in the
\* same order, so Theta is v only if the canonical model already held v.
C10_Marshalling ==
    \A n \in Ranks :
        Exists(opt[n]) =>
            /\ Flattened(opt[n].model_adapt) = InitialParams(cfg.shapes)
            /\ hist[n].marshal.stage = "update_model" =>
                   Flattened(ModelParams(opt[n])) = hist[n].marshal.v
            /\ hist[n].marshal.stage = "update_theta" =>
                   /\ Flattened(ModelParams(opt[n])) = hist[n].marshal.v
                   /\ opt[n].theta = Flattened(opt[n].model_adapt)
C10_Witness ==
    \E n \in Ranks :
        /\ hist[n].marshal.stage = "update_theta" /\ Len(cfg.shapes) = 2
        /\ opt[n].theta # hist[n].marshal.v
        /\ opt[n].theta = InitialParams(cfg.shapes)

\* C11: Theta is changed by adapt() only: mutate, eval_fitness, the fitness
\* synchronize, select and eval_theta leave every element of Theta as it
\* was, also when the evaluation model is overwritten with a candidate.
C11_Frame ==
    \A n \in Ranks :
        Exists(opt[n]) /\ opt'[n].theta # opt[n].theta =>
            \/ opt[n].pc = "gradient_sync" /\ opt'[n].pc = "adapted"
            \/ cfg.strategy = "SNES" /\ opt[n].pc = "selected" /\ opt'[n].pc = "adapted"
C11_ThetaOnlyByAdapt == [][C11_Frame]_vars
C11_Witness ==
    \E n \in Ranks :
        /\ cfg.strategy = "OpenAIES" /\ opt[n].pc = "evaluated"
        /\ hist[n].completed = 1
        /\ opt[n].theta # InitialParams(cfg.shapes)
        /\ Flattened(ModelParams(opt[n])) # opt[n].theta
        /\ hist[n].evaluated # <<>>

\* C12: OpenAI-ES and SNES: an eval_theta call between generations evaluates
\* a model whose parameters are the current Theta, records the loss the
\* criterion returned as the value of get_loss(), and changes neither Theta
\* nor the fitness vector nor the generation.
C12_Frame ==
    \A n \in Ranks :
        /\ IsES /\ opt[n].pc = "ready" /\ opt'[n].pc = "ready"
        /\ opt'[n] # opt[n] \/ hist'[n] # hist[n]
        => /\ Flattened(hist'[n].evaluated) = opt[n].theta
           /\ opt'[n].loss = [num |-> hist'[n].returned, den |-> 1]
           /\ opt'[n].theta = opt[n].theta
           /\ opt'[n].fitness_global = opt[n].fitness_global
           /\ opt'[n].generation = opt[n].generation
C12_EvalTheta == [][C12_Frame]_vars
C12_Witness ==
    \E n \in Ranks :
        /\ cfg.strategy = "OpenAIES" /\ opt[n].pc = "ready" /\ hist[n].completed = 1
        /\ opt[n].theta # InitialParams(cfg.shapes)
        /\ Flattened(hist[n].evaluated) = opt[n].theta
        /\ Flattened(ModelParams(opt[n])) # opt[n].theta
        /\ opt[n].loss = [num |-> hist[n].returned, den |-> 1]
        /\ opt[n].loss # [num |-> Sum(hist[n].evals[1]), den |-> Size(hist[n].evals[1])]

\* the ways of naming num_elites different indices of the fitness vector
EliteIndices(o) ==
    {ind \in [0 .. o.num_elites - 1 -> DOMAIN o.fitness_global] :
        \A a, b \in 0 .. o.num_elites - 1 : a # b => ind[a] # ind[b]}
Lowest(o, ind) ==
    \A k \in DOMAIN ind : \A j \in DOMAIN o.fitness_global :
        (\A a \in DOMAIN ind : ind[a] # j) => o.fitness_global[ind[k]] <= o.fitness_global[j]

\* C13, by index: after GA select() the elite table has num_elites rows;
\* they are the population rows at the indices of the num_elites lowest
\* values of the synchronized fitness vector, so no elite index has a higher
\* fitness than a non-elite index and an index of the lowest fitness is
\* among them ...
C13_ByIndex ==
    \A n \in Ranks :
        cfg.strategy = "GA" /\ opt[n].pc = "selected" =>
            /\ Size(opt[n].elites) = opt[n].num_elites
            /\ \E ind \in EliteIndices(opt[n]) :
                   /\ \A k \in DOMAIN ind : opt[n].elites[k] = opt[n].population[ind[k]]
                   /\ Lowest(opt[n], ind)
                   /\ opt[n].num_elites > 0 =>
                          \A j \in DOMAIN opt[n].fitness_global :
                              opt[n].fitness_global[ind[0]] <= opt[n].fitness_global[j]
\* the individual whose loss is entry i of the fitness vector rank n ranks
\* in its current generation: the row the entry's owner evaluated
Owner(n, i) == IF cfg.data_parallel THEN n ELSE i \div opt[n].folds
Individual(n, i) ==
    hist[Owner(n, i)].members[opt[n].generation][i - Owner(n, i) * opt[n].folds]
\* ... and an individual of the lowest fitness of the generation is a row of
\* the elite table.
C13_BestKept ==
    \A n \in Ranks :
        cfg.strategy = "GA" /\ opt[n].pc = "selected" /\ opt[n].num_elites > 0 =>
            \E i \in DOMAIN opt[n].fitness_global :
                /\ \A j \in DOMAIN opt[n].fitness_global :
                       opt[n].fitness_global[i] <= opt[n].fitness_global[j]
                /\ \E k \in DOMAIN opt[n].elites : opt[n].elites[k] = Individual(n, i)
\* C13: after select() the elite table holds the num_elites individuals of
\* lowest fitness of the generation just evaluated, the best one among them
C13_Elitism == C13_ByIndex /\ C13_BestKept
\* a row is, before the noise, coordinate by coordinate one of two elite rows
Crossed(o, row) ==
    \E p1, p2 \in 0 .. o.num_elites - 1 : \E noise \in GaNoise(o.num_parameters) :
        \A j \in 0 .. o.num_parameters - 1 :
            row[j] - noise[j] * o.sigma \in {o.elites[p1][j], o.elites[p2][j]}
C14_Mutated ==
    \A n \in Ranks :
        cfg.strategy = "GA" /\ opt[n].pc = "mutated" =>
            \A i \in 0 .. opt[n].popsize - 1 :
                IF i < opt[n].num_elites
                THEN opt[n].population[i] = opt[n].elites[i]
                ELSE Crossed(opt[n], opt[n].population[i])
C14_Frame ==
    \A n \in Ranks :
        cfg.strategy = "GA" /\ opt[n].pc = "ready" /\ opt'[n].pc = "mutated" =>
            opt'[n].elites = opt[n].elites
\* C14: after GAOptimizer.mutate() population row i is elite row i for every
\* i < num_elites, mutate() leaves the elite table as it was, and every other
\* row is, coordinate by coordinate and before the additive noise, the
\* coordinate of one of two parents that are rows of the elite table
C14_ElitesPreserved == []C14_Mutated /\ [][C14_Frame]_vars
\* a second generation is mutated from two different elites into a row that
\* takes a coordinate of each
C14_Witness ==
    /\ cfg.strategy = "GA" /\ Exists(opt[0]) /\ opt[0].pc = "mutated"
    /\ opt[0].generation = 2 /\ opt[0].num_elites = 2 /\ opt[0].popsize = 3
    /\ opt[0].elites[0] # opt[0].elites[1]
    /\ opt[0].population[0] = opt[0].elites[0]
    /\ opt[0].population[1] = opt[0].elites[1]
    /\ \A k \in 0 .. 1 : \A noise \in GaNoise(opt[0].num_parameters) :
           \E j \in 0 .. opt[0].num_parameters - 1 :
               opt[0].population[2][j] - noise[j] * opt[0].sigma # opt[0].elites[k][j]

\* the calls of step() among the first k calls made to the generator
StepsIn(calls, k) == Cardinality({i \in 1 .. k : calls[i] = "step"})
\* a rank that has mutated in its current generation
HasMutated(o) == o.pc \notin {"failed", "ready"}
\* C15: in OpenAI-ES and SNES the generator's step() is called once per
\* generation and before any noise is requested in it: within one step()
\* epsilon.step() comes right before generate_mutate_noise(), and the
\* generate_update_noise() calls of adapt() follow with no step() in between
C15_StepOncePerGeneration ==
    \A n \in Ranks :
        IsES /\ Exists(opt[n]) =>
            LET calls == opt[n].epsilon.calls
            IN  /\ StepsIn(calls, Len(calls)) =
                       IF HasMutated(opt[n]) THEN opt[n].generation
                       ELSE opt[n].generation - 1
                /\ opt[n].epsilon.t = StepsIn(calls, Len(calls))
                /\ \A i \in 1 .. Len(calls) :
                       /\ calls[i] = "generate_mutate_noise" =>
                              i > 1 /\ calls[i - 1] = "step"
                       /\ calls[i] = "generate_update_noise" =>
                              i > 1 /\ calls[i - 1] # "step"
                       /\ calls[i] = "step" =>
                              i < Len(calls) /\ calls[i + 1] = "generate_mutate_noise"
                /\ opt[n].pc = "adapted" =>
                       calls[Len(calls)] = "generate_update_noise"
\* SNES has adapted its second generation: two steps, two mutate requests and
\* six update requests
C15_Witness ==
    /\ cfg.strategy = "SNES" /\ Exists(opt[0]) /\ opt[0].pc = "adapted"
    /\ opt[0].generation = 2
    /\ Len(opt[0].epsilon.calls) = 10
    /\ opt[0].epsilon.calls[6] = "step"
    /\ opt[0].epsilon.calls[10] = "generate_update_noise"

\* the rank runs the orthogonal-updates row of the strategy table
Orthogonal(o) == IsES /\ Exists(o) /\ cfg.orthogonal_updates /\ ~cfg.semi_updates
\* the views tile a buffer of len elements in order, each of the same length
Tiles(lst, len, shard) ==
    /\ Len(lst) * shard = len
    /\ \A k \in 1 .. Len(lst) : lst[k] = Range((k - 1) * shard, shard)
\* C16: in orthogonal-updates mode the gradient buffer has length
\* ceil(num_parameters/N)*N, every node's shard has length
\* ceil(num_parameters/N), the shards in rank order tile the buffer without
\* overlap, and only entries 0 .. num_parameters-1 of the gathered gradient
\* are written into the model's gradients
C16_OrthogonalShards ==
    \A n \in Ranks :
        Orthogonal(opt[n]) =>
            LET o == opt[n]
                shard == CeilDiv(o.num_parameters, cfg.number_nodes)
            IN  /\ Size(o.gradient) = shard * cfg.number_nodes
                /\ Len(o.gradient_list) = cfg.number_nodes
                /\ Tiles(o.gradient_list, Size(o.gradient), shard)
                /\ o.gradient_local = Range(n * shard, shard)
                /\ o.gradient_for_update = o.gradient_local
                /\ cfg.strategy = "OpenAIES" /\ o.pc = "adapted" =>
                       /\ Size(Flattened(o.model_grad)) = o.num_parameters
                       /\ \A j \in 0 .. o.num_parameters - 1 :
                              Flattened(o.model_grad)[j] = 0 - o.gradient[j]
\* two nodes have gathered a buffer with a synthetic slot whose value is not
\* the last written gradient, and rank 0 has written the gradients back
C16_Witness ==
    /\ cfg.number_nodes = 2 /\ cfg.strategy = "OpenAIES"
    /\ Orthogonal(opt[0]) /\ opt[0].pc = "adapted"
    /\ opt[0].num_parameters = 3 /\ Size(opt[0].gradient) = 4
    /\ opt[0].gradient[3] # opt[0].gradient[2]
    /\ opt[0].gradient[3] # Uninit
    /\ Flattened(opt[0].model_grad)[2] = 0 - opt[0].gradient[2]

\* C17: with more than one node, a node that calls step() fewer times than
\* its peers keeps every peer inside its next step() call: no peer's
\* generation counter advances past the lagging node's count plus one, for
\* every strategy and every distributed mode the constructor accepts.
C17_PeersBlock ==
    cfg.number_nodes > 1 =>
        \A n, m \in Ranks :
            Exists(opt[n]) /\ Exists(opt[m]) =>
                opt[n].generation <= Entered(m) + 1

\* the raw sums of the nodes, combined as the rank's gradient mode says
Combined(o, n, g) ==
    CASE o.gradient_sync_mode = "NONE" -> g = o.gradient
      [] o.gradient_sync_mode = "AVERAGE" ->
            \A j \in DOMAIN g : g[j] = Sum([m \in Ranks |-> PostOf(n, m)[j]])
      [] o.gradient_sync_mode = "GATHER" ->
            \A m \in Ranks : \A i \in DOMAIN PostOf(n, m) :
                g[m * Size(PostOf(n, m)) + i] = PostOf(n, m)[i]
\* the elements torch.mv wrote: the view gradient_for_update, or the whole
\* tensor where the output resized it
Written(o) ==
    IF o.gradient_for_update.len >= Size(o.gradient) THEN o.gradient
    ELSE ViewOf(o.gradient, o.gradient_for_update)
\* before the synchronization the gradient holds the raw sum, undivided
C18_Raw ==
    \A n \in Ranks :
        cfg.strategy = "OpenAIES" /\ opt[n].pc = "gradient_sync" =>
            /\ Written(opt[n]) =
                   TransposeMv(generate_update_noise(opt[n].epsilon),
                               opt[n].fitness_shaped)
            /\ opt[n].gradient_den = opt[n].shaped_den
            /\ opt[n].gradient_sync_mode # "NONE" =>
                   PostOf(n, n) = GradientForSync(opt[n])
\* the rest of adapt()
C18_Frame ==
    \A n \in Ranks :
        cfg.strategy = "OpenAIES" /\ opt[n].pc = "gradient_sync"
        /\ opt'[n].pc = "adapted" =>
            /\ Combined(opt[n], n, opt'[n].gradient)
            /\ opt'[n].gradient_den =
                   opt[n].shaped_den
                   * (IF opt[n].gradient_sync_mode = "AVERAGE"
                      THEN cfg.number_nodes ELSE 1)
                   * (opt[n].sigma * opt[n].popsize)
            /\ \A j \in 0 .. opt[n].num_parameters - 1 :
                   /\ Flattened(opt'[n].model_grad)[j] = 0 - opt'[n].gradient[j]
                   /\ Sign(opt'[n].theta[j] - opt[n].theta[j]) =
                          Sign(opt'[n].gradient[j])
            /\ opt'[n].theta = Flattened(opt'[n].model_adapt)
            /\ cfg.number_nodes = 1 /\ opt[n].popsize = 2
               /\ opt[n].fitness_global[0] < opt[n].fitness_global[1] =>
                   \A j \in 0 .. opt[n].num_parameters - 1 :
                       Sign(opt'[n].theta[j] - opt[n].theta[j]) =
                           Sign(opt[n].theta_noisy[0][j] - opt[n].theta[j])
\* C18: OpenAIESOptimizer.adapt() combines the raw sum (update noise
\* transposed times shaped fitness) across nodes, then divides it by
\* sigma*popsize once, hands the negated vector to the update rule as the
\* loss gradient and re-extracts Theta; for the antithetic pair
\* {Theta+sigma*e, Theta-sigma*e} on one node whose first member has the
\* lower loss, a descent step moves every coordinate of Theta along e
C18_ESAdapt == []C18_Raw /\ [][C18_Frame]_vars
\* one node has adapted from an antithetic pair whose first member was
\* better, and every coordinate of Theta has moved
C18_Witness ==
    /\ cfg.strategy = "OpenAIES" /\ cfg.number_nodes = 1
    /\ Exists(opt[0]) /\ opt[0].pc = "adapted" /\ opt[0].popsize = 2
    /\ opt[0].generation = 1 /\ opt[0].num_parameters = 3
    /\ opt[0].fitness_global[0] < opt[0].fitness_global[1]
    /\ \A j \in 0 .. 2 :
           /\ opt[0].theta_noisy[0][j] # opt[0].theta_noisy[1][j]
           /\ opt[0].theta[j] # InitialParams(cfg.shapes)[j]
           /\ Sign(opt[0].theta[j] - InitialParams(cfg.shapes)[j]) =
                  Sign(opt[0].theta_noisy[0][j] - opt[0].theta_noisy[1][j])

\* the update of Theta: theta += lr_theta * (theta_gradient / popsize / sigma)
\* with the sigma of before the step
C19_Theta(o, p) ==
    \A j \in 0 .. o.num_parameters - 1 :
        p.theta[j] =
            o.theta[j]
            + o.lr_theta
              * Quot(Quot(TransposeMv(generate_update_noise(o.epsilon), o.utilities)[j],
                          o.popsize),
                     o.sigma[j])
\* the exponent is 0.5 * lr_sigma * sigma_gradient / popsize ...
C19_Exponent(o, p) ==
    \A j \in 0 .. o.num_parameters - 1 :
        /\ p.sigma_gradient[j] =
               TransposeMv(Squared(generate_update_noise(o.epsilon)), o.utilities)[j]
        /\ p.exponent[j] * (2 * o.popsize) =
               o.lr_sigma * p.sigma_gradient[j] * p.exponent_den
\* ... and sigma is multiplied by its exponential
C19_Sigma(o, p) ==
    \A j \in 0 .. o.num_parameters - 1 :
        p.sigma[j] = ExpMul(o.sigma[j], p.exponent[j])
C19_Frame ==
    \A n \in Ranks :
        cfg.strategy = "SNES" /\ opt[n].pc = "selected" /\ opt'[n].pc = "adapted" =>
            /\ C19_Theta(opt[n], opt'[n])
            /\ C19_Exponent(opt[n], opt'[n])
            /\ C19_Sigma(opt[n], opt'[n])
\* C19: each generation SNESOptimizer.adapt() applies
\* theta += lr_theta * (theta_gradient / popsize / sigma) with the sigma of
\* before this generation's sigma update, and multiplies sigma by exp of
\* 0.5 * lr_sigma * sigma_gradient / popsize: the sigma-gradient is divided
\* by popsize in the exponent as the theta-gradient is
C19_SNESUpdate == [][C19_Frame]_vars

\* C20: in OpenAI-ES and SNES, in every distributed mode the constructor
\* accepts, nodes that start from the same model parameters hold
\* element-wise identical Theta after every completed generation.
C20_ThetaAgreement ==
    \A n, m \in Ranks :
        /\ IsES /\ opt[n].pc = "ready" /\ opt[m].pc = "ready"
        /\ opt[n].generation = opt[m].generation
        => opt[n].theta = opt[m].theta

\* the population-parallel genetic algorithm on more than one node
GAParallel == cfg.strategy = "GA" /\ cfg.number_nodes > 1 /\ ~cfg.data_parallel
\* each fitness select() ranks on node n is the loss of n's own row i
C21_OwnRows ==
    \A n \in Ranks :
        GAParallel /\ opt[n].pc = "selected" =>
            \A i \in DOMAIN opt[n].fitness_global :
                Individual(n, i) = opt[n].population[i]
\* the nodes hold the same elite table after select() of a generation
C21_SameElites ==
    \A n, m \in Ranks :
        /\ GAParallel /\ opt[n].pc = "selected" /\ opt[m].pc = "selected"
        /\ opt[n].generation = opt[m].generation
        => opt[n].elites = opt[m].elites
\* C21: with more than one population-parallel node, each fitness_global[i]
\* that select() ranks on node n is the loss of node n's own population row
\* i, so that after select() of every generation all nodes hold identical
\* elite tables.
C21_CrossNodeElites == C21_OwnRows /\ C21_SameElites

C23_ShardExists ==
    \A n \in Ranks :
        /\ cfg.strategy = "OpenAIES" /\ ~cfg.data_parallel
        /\ SumSeq(cfg.shapes) >= cfg.number_nodes
        /\ opt[n].pc # "new" /\ ~Failed(BaseInit(n))
        => /\ ~(opt[n].pc = "failed" /\ opt[n].error = "IndexError")
           /\ Exists(opt[n]) => Len(opt[n].gradient_list) = cfg.number_nodes

\* the raw gradient of the plain strategy: the FULL noise matrix transposed
\* times the shaped fitness
PlainGradient(o) == TransposeMv(NoiseMatrix(o.epsilon, "FULL"), o.fitness_shaped)
\* the plain strategy computes it locally
C24_Plain ==
    \A n \in Ranks :
        /\ cfg.strategy = "OpenAIES" /\ opt[n].pc = "gradient_sync"
        /\ ~cfg.semi_updates /\ ~cfg.orthogonal_updates /\ ~cfg.data_parallel
        => /\ opt[n].gradient = PlainGradient(opt[n])
           /\ opt[n].fitness_for_update = "fitness_global"
\* the gathered gradient of orthogonal-updates and the Theta it leads to
C24_Frame ==
    \A n \in Ranks :
        /\ cfg.strategy = "OpenAIES" /\ Orthogonal(opt[n])
        /\ opt[n].pc = "gradient_sync" /\ opt'[n].pc = "adapted"
        => /\ opt[n].fitness_for_update = "fitness_global"
           /\ \A j \in 0 .. opt[n].num_parameters - 1 :
                  opt'[n].gradient[j] = PlainGradient(opt[n])[j]
           /\ opt'[n].gradient_den =
                  opt[n].shaped_den * (opt[n].sigma * opt[n].popsize)
           /\ opt'[n].theta =
                  ESNormalized(opt[n], PlainGradient(opt[n]), opt[n].shaped_den).theta
\* C24: orthogonal-updates is equivalent to the plain population-parallel
\* strategy: from the same Theta, gathered fitness and noise values, the
\* first num_parameters entries of the gradient gathered in
\* orthogonal-updates mode equal the gradient plain mode computes locally,
\* also where num_parameters is not a multiple of the node count, and both
\* lead to the same Theta
C24_OrthogonalIsPlain == []C24_Plain /\ [][C24_Frame]_vars
\* two nodes with three parameters have gathered their shards, rank 1's
\* shard holding a synthetic slot, and Theta has moved in every coordinate
C24_Witness ==
    /\ cfg.strategy = "OpenAIES" /\ cfg.number_nodes = 2
    /\ Orthogonal(opt[1]) /\ opt[1].pc = "adapted" /\ opt[1].num_parameters = 3
    /\ Size(opt[1].gradient) = 4
    /\ \A j \in 0 .. 2 :
           /\ opt[1].gradient[j] # 0
           /\ opt[1].theta[j] # InitialParams(cfg.shapes)[j]
    /\ opt[1].gradient[2] # opt[1].gradient[0]

\* C25: for GAOptimizer, Theta and the parameters of the canonical model are
\* unchanged by any sequence of step() calls: adapt() is a no-op and no GA
\* operation writes to them, so eval_theta() after any number of generations
\* evaluates the parameters the model had at construction, never a
\* population member or elite.
C25_GAFrozenTheta ==
    \A n \in Ranks :
        cfg.strategy = "GA" /\ Exists(opt[n]) =>
            /\ opt[n].theta = InitialParams(cfg.shapes)
            /\ Flattened(opt[n].model_adapt) = InitialParams(cfg.shapes)
            /\ hist[n].evaluated # <<>> =>
                   Flattened(hist[n].evaluated) = InitialParams(cfg.shapes)
\* after a completed generation that selected two different elites and
\* evaluated members in the evaluation copy, eval_theta() has evaluated the
\* construction-time parameters
C25_Witness ==
    /\ cfg.strategy = "GA" /\ Exists(opt[0]) /\ opt[0].pc = "ready"
    /\ hist[0].completed = 2 /\ opt[0].num_elites = 2
    /\ opt[0].elites[0] # opt[0].elites[1]
    /\ opt[0].elites[0] # InitialParams(cfg.shapes)
    /\ hist[0].evaluated # <<>>
    /\ Flattened(hist[0].evaluated) = InitialParams(cfg.shapes)
    /\ Flattened(ModelParams(opt[0])) # InitialParams(cfg.shapes)

====
